---- MODULE Spec2Model ----
(***************************************************************************)
(* Model of the imagedata_format_pdf plugin:                               *)
(*   src/src/imagedata_format_pdf/__init__.py   (package import, probe)    *)
(*   src/src/imagedata_format_pdf/pdfplugin.py  (PDFPlugin)                *)
(*                                                                         *)
(* Python strings are sequences of one-character strings, so that          *)
(* str.split, str.lower and int() are computed character by character.     *)
(* A Python value is a record [t, s, n]: t is the type ("unbound" for an   *)
(* attribute that does not exist), s the characters of a str, n the value  *)
(* of an int or (0/1) of a bool.                                           *)
(***************************************************************************)
EXTENDS Integers, Sequences, FiniteSets, TLC

VARIABLES stage, POPPLER_INSTALLED, self, hdr, rd, call

vars == <<stage, POPPLER_INSTALLED, self, hdr, rd, call>>

\* ------------------------------------------------------------------ bounds

\* Longest option string, in comma-separated entries.
MaxEntries == 2
\* Longest input document, in bytes.
MaxBytes == 2

\* ------------------------------------------------------- Python values

Unbound == [t |-> "unbound", s |-> <<>>, n |-> 0]
PyStr(s) == [t |-> "str", s |-> s, n |-> 0]
PyInt(n) == [t |-> "int", s |-> <<>>, n |-> n]
PyBool(b) == [t |-> "bool", s |-> <<>>, n |-> IF b THEN 1 ELSE 0]

Digits == <<"0", "1", "2", "3", "4", "5", "6", "7", "8", "9">>
UpperCase == <<"A", "B", "C", "D", "E", "F", "G", "H", "I", "J", "K", "L", "M",
               "N", "O", "P", "Q", "R", "S", "T", "U", "V", "W", "X", "Y", "Z">>
LowerCase == <<"a", "b", "c", "d", "e", "f", "g", "h", "i", "j", "k", "l", "m",
               "n", "o", "p", "q", "r", "s", "t", "u", "v", "w", "x", "y", "z">>

IndexIn(c, alphabet) ==
    IF \E i \in 1..Len(alphabet) : alphabet[i] = c
    THEN CHOOSE i \in 1..Len(alphabet) : alphabet[i] = c
    ELSE 0

\* str.split(sep) for a one-character separator: the pieces between the
\* separators, empty pieces kept, a string without separator as one piece.
RECURSIVE Split(_, _)
Split(s, sep) ==
    IF \A i \in 1..Len(s) : s[i] # sep
    THEN <<s>>
    ELSE LET i == CHOOSE k \in 1..Len(s) :
                      s[k] = sep /\ \A j \in 1..(k - 1) : s[j] # sep
         IN  <<SubSeq(s, 1, i - 1)>> \o Split(SubSeq(s, i + 1, Len(s)), sep)

\* str.lower() over the ASCII letters.
Lower(s) ==
    [i \in 1..Len(s) |->
        IF IndexIn(s[i], UpperCase) # 0
        THEN LowerCase[IndexIn(s[i], UpperCase)]
        ELSE s[i]]

\* int(str): an optional sign and at least one decimal digit, nothing else
\* (the inputs of the model hold no white space and no underscores).
IsDecimal(s) == Len(s) >= 1 /\ \A i \in 1..Len(s) : IndexIn(s[i], Digits) # 0

RECURSIVE DecimalValue(_)
DecimalValue(s) ==
    IF s = <<>> THEN 0
    ELSE 10 * DecimalValue(SubSeq(s, 1, Len(s) - 1))
         + (IndexIn(s[Len(s)], Digits) - 1)

IntParses(s) ==
    IF Len(s) >= 1 /\ s[1] \in {"+", "-"} THEN IsDecimal(Tail(s)) ELSE IsDecimal(s)

IntOfStr(s) ==
    IF s[1] = "-" THEN 0 - DecimalValue(Tail(s))
    ELSE IF s[1] = "+" THEN DecimalValue(Tail(s))
    ELSE DecimalValue(s)

\* int(x) of a Python value: [ok, v].
int(x) ==
    IF x.t \in {"int", "bool"} THEN [ok |-> TRUE, v |-> PyInt(x.n)]
    ELSE IF x.t = "str" /\ IntParses(x.s) THEN [ok |-> TRUE, v |-> PyInt(IntOfStr(x.s))]
    ELSE [ok |-> FALSE, v |-> x]

\* ------------------------------------------------------- option strings

S_dpi == <<"d", "p", "i">>
S_rotate == <<"r", "o", "t", "a", "t", "e">>
S_encapsulate == <<"e", "n", "c", "a", "p", "s", "u", "l", "a", "t", "e">>
S_zoom == <<"z", "o", "o", "m">>
S_true == <<"t", "r", "u", "e">>
S_on == <<"o", "n">>

KV(k, v) == k \o <<"=">> \o v

\* The entries an option string of the model is made of: every legal key,
\* a key outside the legal set, truthy and falsy spellings of encapsulate,
\* a legal and an illegal rotation, a resolution that is no number and an
\* entry without "=".
Entries ==
    { KV(S_dpi, <<"7", "2">>),
      KV(S_dpi, <<"7", "x">>),
      S_rotate,
      KV(S_rotate, <<"9", "0">>),
      KV(S_rotate, <<"4", "5">>),
      KV(S_encapsulate, <<"T", "r", "u", "e">>),
      KV(S_encapsulate, <<"n", "o">>),
      KV(S_zoom, <<"2">>) }

RECURSIVE Join(_)
Join(es) ==
    IF es = <<>> THEN <<>>
    ELSE IF Len(es) = 1 THEN es[1]
    ELSE es[1] \o <<",">> \o Join(Tail(es))

EntryLists(n) == UNION { [1..k -> Entries] : k \in 0..n }

\* opts['pdfopt']: absent (no such key, or None), or a string.
NoPdfopt == [present |-> FALSE, s |-> <<>>]
Pdfopt(s) == [present |-> TRUE, s |-> s]

OptStrings == {NoPdfopt} \cup { Pdfopt(Join(es)) : es \in EntryLists(MaxEntries) }

\* The option strings of the document-processing specification: each way
\* into the two branches, at both rotations, and one read that fails after
\* it has set an attribute.
FewOpts ==
    { NoPdfopt,
      Pdfopt(Join(<<KV(S_encapsulate, <<"n", "o">>)>>)),
      Pdfopt(Join(<<KV(S_encapsulate, <<"n", "o">>), KV(S_rotate, <<"9", "0">>)>>)),
      Pdfopt(Join(<<KV(S_rotate, <<"9", "0">>)>>)),
      Pdfopt(Join(<<KV(S_encapsulate, <<"O", "n">>)>>)),
      Pdfopt(Join(<<KV(S_encapsulate, <<"n", "o">>), KV(S_zoom, <<"2">>)>>)) }

\* ------------------------------------------------------------ documents

\* A document is its bytes. The external renderer is a function of the
\* bytes; in the model byte 1 stands for a portrait page, byte 2 for a
\* landscape page and byte 0 for content that is no page.
ByteVals == {0, 1, 2}

Docs == UNION { [1..k -> ByteVals] : k \in 0..MaxBytes }

FewDocs == { <<1>>, <<1, 2>> }

\* --------------------------------------------------- the external renderer

\* Page sizes in 1/200 inch, as <<height, width>>.
PageSize(b) == IF b = 1 THEN <<3, 2>> ELSE <<2, 3>>

\* The resolution pdf2image works at when the caller passes none: its
\* dpi=200 default (the 2339 x 1653 pixels the tests expect of an A4 page).
convert_from_bytes_dpi == 200

PageBytes(pdf_bytes) == SelectSeq(pdf_bytes, LAMBDA b : b # 0)

\* One rendered page: a PIL image of 8-bit RGB pixels. Pixel (r, c) of the
\* k-th page is <<k, r, c>>, so that every pixel of a document differs.
RenderPage(k, b, dpi) ==
    LET h == (PageSize(b)[1] * dpi) \div 200
        w == (PageSize(b)[2] * dpi) \div 200
    IN  [height |-> h, width |-> w,
         px |-> [r \in 1..h |-> [c \in 1..w |-> <<k, r, c>>]]]

\* pdf2image.convert_from_bytes(pdf_bytes, dpi): the pages in document
\* order, or its own error for input that is no document at all (empty).
Render(pdf_bytes, dpi) ==
    IF pdf_bytes = <<>>
    THEN [ok |-> FALSE, exc |-> "PDFPageCountError", images |-> <<>>]
    ELSE [ok |-> TRUE, exc |-> "none",
          images |-> [k \in 1..Len(PageBytes(pdf_bytes)) |->
                         RenderPage(k, PageBytes(pdf_bytes)[k], dpi)]]

\* ------------------------------------------------------------ numpy arrays

\* An ndarray is its shape and its data, nested pages, rows, columns,
\* samples. None is NoArray.
NoArray == [shape |-> <<>>, data |-> <<>>]

\* np.zeros((n, h, w, 3), np.uint8)
zeros(n, h, w) ==
    [shape |-> <<n, h, w, 3>>,
     data |-> [p \in 1..n |-> [r \in 1..h |-> [c \in 1..w |-> <<0, 0, 0>>]]]]

\* Whether an image of shape (img.height, img.width, 3) broadcasts to (h, w, 3).
Broadcasts(img, h, w) == img.height \in {h, 1} /\ img.width \in {w, 1}

\* A slip of the loop: every image written to the first slot.
AssignPage_first(si, i, img) ==
    [si EXCEPT !.data[1] =
        [r \in 1..si.shape[2] |-> [c \in 1..si.shape[3] |->
            img.px[IF img.height = 1 THEN 1 ELSE r][IF img.width = 1 THEN 1 ELSE c]]]]

\* si[i] = img
AssignPage(si, i, img) ==
    [si EXCEPT !.data[i] =
        [r \in 1..si.shape[2] |-> [c \in 1..si.shape[3] |->
            img.px[IF img.height = 1 THEN 1 ELSE r][IF img.width = 1 THEN 1 ELSE c]]]]

\* The loop of lines 110-112 from page i on: [ok, si]; it stops at the
\* first image numpy cannot broadcast into its slot (a ValueError).
RECURSIVE FillPages(_, _, _)
FillPages(si, image_list, i) ==
    IF i > Len(image_list) THEN [ok |-> TRUE, si |-> si]
    ELSE IF ~Broadcasts(image_list[i], si.shape[2], si.shape[3])
    THEN [ok |-> FALSE, si |-> si]
    ELSE FillPages(AssignPage(si, i, image_list[i]), image_list, i + 1)

\* A slip of the rotation: the pages and the rows exchanged, axes=(0, 1).
rot90_axes01(si) ==
    LET n == si.shape[1]
        h == si.shape[2]
        w == si.shape[3]
    IN  [shape |-> <<h, n, w, si.shape[4]>>,
         data |-> [i \in 1..h |-> [p \in 1..n |-> [c \in 1..w |->
                      si.data[p][h + 1 - i][c]]]]]

\* np.rot90(si, axes=(1, 2)) of a 4-dimensional array: out[p][i][j] is
\* in[p][j][w-1-i] (0-based), the extents of axes 1 and 2 exchanged.
rot90(si) ==
    LET n == si.shape[1]
        h == si.shape[2]
        w == si.shape[3]
    IN  [shape |-> <<n, w, h, si.shape[4]>>,
         data |-> [p \in 1..n |-> [i \in 1..w |-> [j \in 1..h |->
                      si.data[p][j][w + 1 - i]]]]]

\* si.shape = si.shape[1:] of an array whose first extent is 1.
DropLeading(si) == [shape |-> Tail(si.shape), data |-> si.data[1]]

\* Lines 117-121: the rotation and the single-page reshape.
PostProcess(si, rotate) ==
    LET r == IF rotate = 90 THEN rot90(si) ELSE si
    IN  IF Len(r.shape) = 3 /\ r.shape[1] = 1 THEN DropLeading(r) ELSE r

\* ------------------------------------------------- the header and the plugin

\* A Header the host hands to a read: nothing set yet.
EmptyHdr ==
    [DicomHeaderDict |-> <<>>,
     tags |-> [t |-> "unset", v |-> <<>>],
     spacing |-> <<>>,
     photometricInterpretation |-> "",
     color |-> Unbound,
     imagePositions |-> <<>>,
     orientation |-> <<>>,
     axes |-> <<>>]

\* PDFPlugin.__init__ sets name, description, authors, version and url
\* only: dpi, rotate and encapsulate do not exist on a new instance.
FreshSelf == [dpi |-> Unbound, rotate |-> Unbound, encapsulate |-> Unbound]

legal_attributes == {S_dpi, S_rotate, S_encapsulate}

\* setattr(self, attr, value) for a legal attr.
SetAttr(self_, attr, value) ==
    IF attr = S_dpi THEN [self_ EXCEPT !.dpi = value]
    ELSE IF attr = S_rotate THEN [self_ EXCEPT !.rotate = value]
    ELSE [self_ EXCEPT !.encapsulate = value]

\* The loop of lines 77-82 over the entries left: [ok, self, line]. An entry
\* that does not split into exactly two parts fails the unpacking of line
\* 78, a key outside legal_attributes raises at line 82; both ValueError.
RECURSIVE ApplyExprs(_, _)
ApplyExprs(self_, exprs) ==
    IF exprs = <<>> THEN [ok |-> TRUE, self |-> self_, line |-> 0]
    ELSE LET parts == Split(Head(exprs), "=")
         IN  IF Len(parts) # 2 THEN [ok |-> FALSE, self |-> self_, line |-> 78]
             ELSE IF parts[1] \in legal_attributes
             THEN ApplyExprs(SetAttr(self_, parts[1], PyStr(parts[2])), Tail(exprs))
             ELSE [ok |-> FALSE, self |-> self_, line |-> 82]

NoRenderer == [called |-> FALSE, dpi |-> 0]

\* What a call of _read_image leaves: the instance, the header, the
\* exception raised (at which line) or the value returned, and whether the
\* renderer was called and at which resolution.
Result(self_, hdr_, exc, line, ret, si, renderer) ==
    [self |-> self_, hdr |-> hdr_, exc |-> exc, line |-> line, ret |-> ret,
     si |-> si, renderer |-> renderer]

Raise(self_, hdr_, exc, line, renderer) ==
    Result(self_, hdr_, exc, line, "raise", NoArray, renderer)

\* A slip of the padding: the parity test inverted.
PadEven_inverted(f_read) ==
    IF Len(f_read) % 2 = 0 THEN Append(f_read, 0) ELSE f_read

\* Lines 260-263: an odd length is padded with one zero byte.
PadEven(f_read) ==
    IF Len(f_read) % 2 # 0 THEN Append(f_read, 0) ELSE f_read

\* generate_dicom_from_pdf(f): the dataset, without its date and time
\* fields (the clock's) and its file meta.
generate_dicom_from_pdf(f) ==
    [SOPClassUID |-> "1.2.840.10008.5.1.4.1.1.104.1",
     EncapsulatedDocument |-> PadEven(f),
     MIMETypeOfEncapsulatedDocument |-> "application/pdf",
     Modality |-> "DOC",
     ConversionType |-> "WSD",
     BurnedInAnnotation |-> "YES",
     VerificationFlag |-> "UNVERIFIED",
     InstanceNumber |-> 1,
     ConceptNameCodeSequence |-> <<>>]

\* Lines 88-93.
Encapsulate(self_, f, hdr_) ==
    LET ds == generate_dicom_from_pdf(f)
    IN  Result(self_,
               [hdr_ EXCEPT !.DicomHeaderDict = << << <<"None", "None", ds>> >> >>,
                            !.tags = [t |-> "list", v |-> << <<0>> >>]],
               "none", 0, "hdr,None", NoArray, NoRenderer)

\* Lines 96-123. The call of line 101 passes the bytes alone.
Rasterize(self_, f, hdr_) ==
    LET conv == Render(f, convert_from_bytes_dpi)
        renderer == [called |-> TRUE, dpi |-> convert_from_bytes_dpi]
    IN  IF ~conv.ok THEN Raise(self_, hdr_, conv.exc, 101, renderer)
        ELSE IF Len(conv.images) < 1 THEN Raise(self_, hdr_, "ValueError", 105, renderer)
        ELSE LET img == conv.images[1]
                 filled == FillPages(zeros(Len(conv.images), img.height, img.width),
                                     conv.images, 1)
             IN  IF ~filled.ok THEN Raise(self_, hdr_, "ValueError", 112, renderer)
                 ELSE Result(self_,
                             [hdr_ EXCEPT !.spacing = <<1, 1, 1>>,
                                          !.photometricInterpretation = "RGB",
                                          !.color = PyBool(TRUE)],
                             "none", 0, "True,si",
                             PostProcess(filled.si, self_.rotate.n), renderer)

\* Lines 83-93: the coercions, the rotation check and the branch.
Resolve(self_, f, hdr_) ==
    LET d == int(self_.dpi)
        s3 == [self_ EXCEPT !.dpi = d.v]
        r == int(s3.rotate)
        s4 == [s3 EXCEPT !.rotate = r.v]
        low == Lower(s4.encapsulate.s)
        s5 == [s4 EXCEPT !.encapsulate = PyBool(low = S_true \/ low = S_on)]
    IN  IF ~d.ok THEN Raise(self_, hdr_, "ValueError", 83, NoRenderer)
        ELSE IF ~r.ok THEN Raise(s3, hdr_, "ValueError", 84, NoRenderer)
        ELSE IF s4.encapsulate.t # "str"
        THEN Raise(s4, hdr_, "AttributeError", 85, NoRenderer)
        ELSE IF s5.rotate.n \notin {0, 90}
        THEN Raise(s5, hdr_, "ValueError", 87, NoRenderer)
        ELSE IF s5.encapsulate.n = 1 THEN Encapsulate(s5, f, hdr_)
        ELSE Rasterize(s5, f, hdr_)

\* PDFPlugin._read_image(f, opts, hdr), with the module's POPPLER_INSTALLED.
_read_image(self_, poppler, pdfopt, f, hdr_) ==
    IF poppler.n # 1 THEN Raise(self_, hdr_, "OSError", 72, NoRenderer)
    ELSE LET s1 == [self_ EXCEPT !.dpi = PyInt(150), !.rotate = PyInt(0)]
             parsed == IF pdfopt.present /\ pdfopt.s # <<>>
                       THEN ApplyExprs(s1, Split(pdfopt.s, ","))
                       ELSE [ok |-> TRUE, self |-> s1, line |-> 0]
         IN  IF ~parsed.ok
             THEN Raise(parsed.self, hdr_, "ValueError", parsed.line, NoRenderer)
             ELSE Resolve(parsed.self, f, hdr_)

\* imagedata.axis.UniformLengthAxis(name, start, n, step)
UniformLengthAxis(name, start, n, step) ==
    [cls |-> "UniformLengthAxis", name |-> name, start |-> start, n |-> n,
     step |-> step, values |-> <<>>]

\* imagedata.axis.VariableAxis(name, values)
VariableAxis(name, values) ==
    [cls |-> "VariableAxis", name |-> name, start |-> 0, n |-> Len(values),
     step |-> 0, values |-> values]

\* The tags dict of lines 192-194, a key and its array per slice, in the
\* order range(nz) inserts them.
SliceTags(nz) == [k \in 1..nz |-> <<k - 1, <<0>>>>]

\* PDFPlugin._set_tags(image_list, hdr, si): the header it leaves.
_set_tags(hdr_, si) ==
    LET h1 == [hdr_ EXCEPT !.spacing = <<1, 1, 1>>,
                           !.imagePositions = << <<0, <<0, 0, 0>>>> >>,
                           !.orientation = <<0, 1, 0, -1, 0, 0>>]
        _color == h1.color.n = 1
        _actual_shape == IF _color THEN SubSeq(si.shape, 1, Len(si.shape) - 1)
                         ELSE si.shape
        _actual_ndim == Len(_actual_shape)
        pos == h1.imagePositions[1][2]
        row == UniformLengthAxis("row", pos[2], _actual_shape[_actual_ndim - 1],
                                 h1.spacing[2])
        column == UniformLengthAxis("column", pos[3], _actual_shape[_actual_ndim],
                                    h1.spacing[3])
        nz == IF _actual_ndim > 2 THEN _actual_shape[_actual_ndim - 2] ELSE 1
        spatial == IF _actual_ndim > 2
                   THEN <<UniformLengthAxis("slice", pos[1], nz, h1.spacing[1]),
                          row, column>>
                   ELSE <<row, column>>
        axes == IF _color
                THEN Append(spatial, VariableAxis("rgb", <<"r", "g", "b">>))
                ELSE spatial
    IN  [h1 EXCEPT !.axes = axes, !.tags = [t |-> "dict", v |-> SliceTags(nz)]]

\* A write that returns instead of raising.
write_3d_numpy_returns(self_, si, destination, opts) ==
    [self |-> self_, exc |-> "none", written |-> "none"]

\* PDFPlugin.write_3d_numpy(si, destination, opts): what the call leaves of
\* the instance, the exception it ends in and what it wrote at the
\* destination.
write_3d_numpy(self_, si, destination, opts) ==
    [self |-> self_, exc |-> "WriteNotImplemented", written |-> "none"]

\* PDFPlugin.write_4d_numpy(si, destination, opts)
write_4d_numpy(self_, si, destination, opts) ==
    [self |-> self_, exc |-> "WriteNotImplemented", written |-> "none"]

\* -------------------------------------------------------------- the state

NoRead ==
    [pdfopt |-> NoPdfopt, f |-> <<>>, fresh |-> FALSE, poppler |-> Unbound,
     exc |-> "none", line |-> 0, ret |-> "never", si |-> NoArray,
     renderer |-> NoRenderer]

NoCall == [op |-> "none", exc |-> "none", arg |-> "none"]

\* Before the package is imported.
Init ==
    /\ stage = "start"
    /\ POPPLER_INSTALLED = Unbound
    /\ self = FreshSelf
    /\ hdr = EmptyHdr
    /\ rd = NoRead
    /\ call = NoCall

\* What launching ["pdfinfo", "-h"] can do: run (any exit status), or raise
\* OSError because the tool is not found or for another reason.
ProbeOutcomes == {"launched", "ENOENT", "EACCES"}

\* __init__.py lines 36-42. The handler of line 42 compares e.errno with
\* errno.ENOENT, and the module imports no errno: the handler itself raises
\* NameError, the import of the package fails and the flag stays unbound.
Probe(outcome) ==
    IF outcome = "launched"
    THEN [ok |-> TRUE, exc |-> "none", flag |-> PyBool(TRUE)]
    ELSE [ok |-> FALSE, exc |-> "NameError", flag |-> Unbound]

\* import imagedata_format_pdf (its version lookup, lines 11-31, succeeding).
Import ==
    /\ stage = "start"
    /\ \E outcome \in ProbeOutcomes :
          LET p == Probe(outcome)
          IN  /\ stage' = IF p.ok THEN "imported" ELSE "import_failed"
              /\ POPPLER_INSTALLED' = p.flag
              /\ call' = [op |-> "import", exc |-> p.exc, arg |-> outcome]
    /\ UNCHANGED <<self, hdr, rd>>

\* PDFPlugin(): a new instance, which replaces the one in use.
Construct ==
    /\ stage \in {"imported", "ready"}
    /\ stage' = "ready"
    /\ self' = FreshSelf
    /\ hdr' = EmptyHdr
    /\ rd' = NoRead
    /\ call' = [op |-> "__init__", exc |-> "none", arg |-> "none"]
    /\ UNCHANGED POPPLER_INSTALLED

\* The host calls _read_image(f, opts, hdr) with a file opened on some
\* document, some option string and a new header.
ReadImage(O, D) ==
    /\ stage = "ready"
    /\ \E pdfopt \in O, f \in D :
          LET R == _read_image(self, POPPLER_INSTALLED, pdfopt, f, EmptyHdr)
          IN  /\ self' = R.self
              /\ hdr' = R.hdr
              /\ rd' = [pdfopt |-> pdfopt, f |-> f, fresh |-> (self = FreshSelf),
                        poppler |-> POPPLER_INSTALLED,
                        exc |-> R.exc, line |-> R.line, ret |-> R.ret,
                        si |-> R.si, renderer |-> R.renderer]
              /\ call' = [op |-> "_read_image", exc |-> R.exc, arg |-> "none"]
    /\ UNCHANGED <<stage, POPPLER_INSTALLED>>

\* The host calls _set_tags on the header and the array a read returned.
SetTags ==
    /\ stage = "ready"
    /\ rd.ret = "True,si"
    /\ hdr' = _set_tags(hdr, rd.si)
    /\ call' = [op |-> "_set_tags", exc |-> "none", arg |-> "none"]
    /\ UNCHANGED <<stage, POPPLER_INSTALLED, self, rd>>

\* The arrays and destinations a write is called with.
WriteArrays == {"None", "si"}
Destinations == {"dir", "archive"}

ArrayOf(a) == IF a = "si" THEN rd.si ELSE NoArray

Write3d ==
    /\ stage = "ready"
    /\ \E a \in WriteArrays, d \in Destinations :
          LET W == write_3d_numpy(self, ArrayOf(a), d, NoPdfopt)
          IN  /\ self' = W.self
              /\ call' = [op |-> "write_3d_numpy", exc |-> W.exc, arg |-> W.written]
    /\ UNCHANGED <<stage, POPPLER_INSTALLED, hdr, rd>>

Write4d ==
    /\ stage = "ready"
    /\ \E a \in WriteArrays, d \in Destinations :
          LET W == write_4d_numpy(self, ArrayOf(a), d, NoPdfopt)
          IN  /\ self' = W.self
              /\ call' = [op |-> "write_4d_numpy", exc |-> W.exc, arg |-> W.written]
    /\ UNCHANGED <<stage, POPPLER_INSTALLED, hdr, rd>>

ReadOpt == ReadImage(OptStrings, FewDocs)

ReadDoc == ReadImage(FewOpts, Docs)

ReadFew == ReadImage(FewOpts, FewDocs)

\* Option resolution: every option string, on a few documents.
Next == Import \/ Construct \/ ReadOpt \/ SetTags

Spec == Init /\ [][Next]_vars

\* Document processing: every document, under a few option strings.
NextDoc == Import \/ Construct \/ ReadDoc \/ SetTags

SpecDoc == Init /\ [][NextDoc]_vars

\* The write path, before and after reads of either outcome.
NextWrite == Import \/ Construct \/ ReadFew \/ SetTags \/ Write3d \/ Write4d

SpecWrite == Init /\ [][NextWrite]_vars

\* ------------------------------------------------------------ properties

\* The entries of an option string, as the option syntax defines them.
OptEntries(o) == IF o.present /\ o.s # <<>> THEN Split(o.s, ",") ELSE <<>>

WellFormed(o) ==
    \A i \in 1..Len(OptEntries(o)) : Len(Split(OptEntries(o)[i], "=")) = 2

KeyOf(e) == Split(e, "=")[1]

ValOf(e) == Split(e, "=")[2]

Keys(o) == { KeyOf(OptEntries(o)[i]) : i \in 1..Len(OptEntries(o)) }

\* The value the last entry with this key gives.
LastVal(o, key) ==
    LET es == OptEntries(o)
        i == CHOOSE k \in 1..Len(es) :
                 /\ KeyOf(es[k]) = key
                 /\ \A j \in (k + 1)..Len(es) : KeyOf(es[j]) # key
    IN  ValOf(es[i])

\* The settings an option string asks for, absent keys at their defaults.
WantedDpi(o) == IF S_dpi \in Keys(o) THEN IntOfStr(LastVal(o, S_dpi)) ELSE 150

WantedRotate(o) == IF S_rotate \in Keys(o) THEN IntOfStr(LastVal(o, S_rotate)) ELSE 0

WantedEncapsulate(o) ==
    /\ S_encapsulate \in Keys(o)
    /\ Lower(LastVal(o, S_encapsulate)) \in {S_true, S_on}

\* Every value of the string is in its key's domain.
ValidValues(o) ==
    /\ S_dpi \in Keys(o) => IsDecimal(LastVal(o, S_dpi))
    /\ S_rotate \in Keys(o) => LastVal(o, S_rotate) \in {<<"0">>, <<"9", "0">>}

\* A read has been made and its record is the current one.
HasRead == rd.ret # "never"

\* The pages the renderer gave the last read.
Pages == Render(rd.f, rd.renderer.dpi).images

\* The last read rasterized and returned its array.
Rasterized == rd.ret = "True,si" /\ rd.renderer.called

\* _set_tags has been applied to the header of the last read.
TagsSet == hdr.tags.t = "dict"

AxisNames == [i \in 1..Len(hdr.axes) |-> hdr.axes[i].name]

AxisLengths == [i \in 1..Len(hdr.axes) |-> hdr.axes[i].n]

\* C1: a read on a new instance, with a well-formed option string: a key
\* outside {dpi, rotate, encapsulate} is rejected with ValueError; otherwise
\* (the values being in their domains) every setting is the string's value
\* for its key or, its key absent, its default (150, 0, false), and the read
\* goes into the branch the settings select.
C1_OptionResolution ==
    (HasRead /\ rd.fresh /\ WellFormed(rd.pdfopt)) =>
        IF Keys(rd.pdfopt) \subseteq legal_attributes
        THEN ValidValues(rd.pdfopt) =>
                /\ self.dpi = PyInt(WantedDpi(rd.pdfopt))
                /\ self.rotate = PyInt(WantedRotate(rd.pdfopt))
                /\ self.encapsulate = PyBool(WantedEncapsulate(rd.pdfopt))
                /\ IF WantedEncapsulate(rd.pdfopt)
                   THEN rd.ret = "hdr,None"
                   ELSE rd.renderer.called
        ELSE rd.exc = "ValueError" /\ rd.ret = "raise"

\* C2: a rasterizing read at rotate=0 whose renderer gave exactly one page
\* of height h and width w returns an array of shape (h, w, 3), and
\* _set_tags on it leaves exactly the axes row (h), column (w) and rgb.
C2_SinglePage ==
    (Rasterized /\ Len(Pages) = 1 /\ self.rotate = PyInt(0)) =>
        /\ rd.si.shape = <<Pages[1].height, Pages[1].width, 3>>
        /\ TagsSet =>
              /\ AxisNames = <<"row", "column", "rgb">>
              /\ AxisLengths = <<Pages[1].height, Pages[1].width, 3>>

\* C3: a rasterizing read at rotate=0 whose renderer gave N >= 2 pages of
\* equal height h and width w returns an array of shape (N, h, w, 3) whose
\* index i holds page i, its samples 8-bit; _set_tags on it leaves the axes
\* slice (N), row (h), column (w), rgb and a tag table with exactly the keys
\* 0..N-1 in order, each with the one-element array.
C3_MultiPage ==
    (Rasterized /\ Len(Pages) >= 2 /\ self.rotate = PyInt(0)
       /\ \A i \in 1..Len(Pages) :
             Pages[i].height = Pages[1].height /\ Pages[i].width = Pages[1].width) =>
        /\ rd.si.shape = <<Len(Pages), Pages[1].height, Pages[1].width, 3>>
        /\ Len(rd.si.data) = Len(Pages)
        /\ \A i \in 1..Len(Pages) : rd.si.data[i] = Pages[i].px
        /\ \A i \in 1..Len(Pages), r \in 1..Pages[1].height, c \in 1..Pages[1].width :
              /\ Len(rd.si.data[i][r][c]) = 3
              /\ \A k \in 1..3 : rd.si.data[i][r][c][k] \in 0..255
        /\ TagsSet =>
              /\ AxisNames = <<"slice", "row", "column", "rgb">>
              /\ AxisLengths = <<Len(Pages), Pages[1].height, Pages[1].width, 3>>
              /\ Len(hdr.tags.v) = Len(Pages)
              /\ \A k \in 1..Len(Pages) : hdr.tags.v[k] = <<k - 1, <<0>>>>

\* The renderer gave at least two pages of one size, the array came back
\* unrotated and _set_tags has run.
C3_Witness ==
    /\ Rasterized /\ Len(Pages) >= 2 /\ self.rotate = PyInt(0) /\ TagsSet
    /\ Pages[2].height = Pages[1].height /\ Pages[2].width = Pages[1].width

\* The container document of the header, once a read has put one there.
EncapsulatedDocument == hdr.DicomHeaderDict[1][1][3].EncapsulatedDocument

\* C4: a read that resolves encapsulate=true and returns gives no array but
\* a header whose only entry is the container document, under the single
\* tag 0; the embedded bytes have even length and are the input bytes b,
\* followed by one zero byte exactly when len(b) is odd. A read asked to
\* encapsulate (and nothing else) returns so for every input.
C4_Encapsulation ==
    /\ (HasRead /\ rd.exc = "none" /\ self.encapsulate = PyBool(TRUE)) =>
          /\ rd.ret = "hdr,None"
          /\ rd.si = NoArray
          /\ ~rd.renderer.called
          /\ Len(hdr.DicomHeaderDict) = 1
          /\ Len(hdr.DicomHeaderDict[1]) = 1
          /\ Len(EncapsulatedDocument) % 2 = 0
          /\ Len(rd.f) % 2 = 0 => EncapsulatedDocument = rd.f
          /\ Len(rd.f) % 2 = 1 => EncapsulatedDocument = Append(rd.f, 0)
          /\ SubSeq(EncapsulatedDocument, 1, Len(rd.f)) = rd.f
          /\ hdr.tags.t = "list"
          /\ hdr.tags.v = << <<0>> >>
    /\ (HasRead /\ rd.pdfopt = Pdfopt(KV(S_encapsulate, <<"O", "n">>))) =>
          /\ rd.exc = "none"
          /\ self.encapsulate = PyBool(TRUE)

\* An odd-length input has been encapsulated.
C4_Witness ==
    /\ HasRead /\ rd.ret = "hdr,None" /\ self.encapsulate = PyBool(TRUE)
    /\ Len(rd.f) % 2 = 1
    /\ Len(EncapsulatedDocument) = Len(rd.f) + 1

IsWrite(c) == c.op \in {"write_3d_numpy", "write_4d_numpy"}

\* C5: every call of write_3d_numpy or write_4d_numpy ends in
\* WriteNotImplemented, writes nothing and leaves the instance, the header
\* and the module as they were, whatever came before it.
C5_WriteNotImplemented ==
    [][IsWrite(call') =>
          /\ call'.exc = "WriteNotImplemented"
          /\ call'.arg = "none"
          /\ self' = self
          /\ hdr' = hdr
          /\ rd' = rd
          /\ POPPLER_INSTALLED' = POPPLER_INSTALLED
          /\ stage' = stage]_vars

\* A write has been refused after a read that returned an array.
C5_Witness ==
    /\ call.op = "write_4d_numpy" /\ call.exc = "WriteNotImplemented"
    /\ rd.ret = "True,si"

\* C6: the resolution the renderer is called with is the resolved dpi
\* setting.
C6_RendererDpi == rd.renderer.called => rd.renderer.dpi = self.dpi.n

\* C7: a read whose well-formed option string sets rotate to an integer
\* outside {0, 90} ends in ValueError and returns nothing.
C7_RotateRejected ==
    (HasRead /\ WellFormed(rd.pdfopt) /\ S_rotate \in Keys(rd.pdfopt)
       /\ IntParses(LastVal(rd.pdfopt, S_rotate))
       /\ IntOfStr(LastVal(rd.pdfopt, S_rotate)) \notin {0, 90}) =>
        rd.exc = "ValueError" /\ rd.ret = "raise"

\* The read of the same document that asks for no rotation.
Unrotated ==
    _read_image(FreshSelf, rd.poppler, Pdfopt(KV(S_encapsulate, <<"n", "o">>)),
                rd.f, EmptyHdr)

\* C8: a rasterizing read at rotate=90 of N pages of height h and width w
\* returns N pages of w rows and h columns of 3 samples, and so does it
\* relate to the array the unrotated read of the same document returns:
\* same page count, rows and columns exchanged, page p a rotation of page p.
C8_Rotate90 ==
    (Rasterized /\ self.rotate = PyInt(90)) =>
        /\ Len(Pages) >= 1
        /\ rd.si.shape = <<Len(Pages), Pages[1].width, Pages[1].height, 3>>
        /\ Unrotated.ret = "True,si"
        /\ Len(Unrotated.si.shape) = Len(rd.si.shape)
        /\ rd.si.shape[Len(rd.si.shape)] = 3
        /\ Unrotated.si.shape[Len(rd.si.shape)] = 3
        /\ rd.si.shape[1] = Unrotated.si.shape[1]
        /\ rd.si.shape[2] = Unrotated.si.shape[3]
        /\ rd.si.shape[3] = Unrotated.si.shape[2]
        /\ \A p \in 1..rd.si.shape[1], i \in 1..rd.si.shape[2], j \in 1..rd.si.shape[3] :
              rd.si.data[p][i][j] = Unrotated.si.data[p][j][rd.si.shape[2] + 1 - i]

\* A document of two pages has come back rotated.
C8_Witness ==
    /\ Rasterized /\ self.rotate = PyInt(90) /\ Len(Pages) = 2
    /\ rd.si.shape[2] # rd.si.shape[3]

\* The same read on an instance that has read nothing before.
OnNewInstance == _read_image(FreshSelf, rd.poppler, rd.pdfopt, rd.f, EmptyHdr)

\* C9: the outcome of a read (the exception it ends in, or what it returns)
\* is the outcome the same option string and input have on an instance
\* without earlier reads.
C9_NoCarryOver ==
    HasRead =>
        /\ rd.exc = OnNewInstance.exc
        /\ rd.ret = OnNewInstance.ret
        /\ rd.si = OnNewInstance.si

\* C10: the import records a boolean POPPLER_INSTALLED for every outcome of
\* the probe, true when the tool was launched and false when it was not
\* found, and a read ends in OSError exactly when the flag is false.
C10_ProbeFlag ==
    /\ call.op = "import" =>
          /\ POPPLER_INSTALLED.t = "bool"
          /\ call.arg = "launched" => POPPLER_INSTALLED = PyBool(TRUE)
          /\ call.arg = "ENOENT" => POPPLER_INSTALLED = PyBool(FALSE)
    /\ HasRead => (rd.exc = "OSError" <=> rd.poppler = PyBool(FALSE))

====
